---- MODULE Spec2Model ----
(***************************************************************************)
(* The incremental ingestion cursor of the EWS O365 integration            *)
(* (Packs/EWS365/Integrations/EWS365/EWS365.py): get_last_run,             *)
(* fetch_last_emails, parse_incident_from_item, fetch_emails_as_incidents  *)
(* and the fetch-incidents branch of sub_main, run against a mailbox       *)
(* folder that receives items between polls.                               *)
(*                                                                         *)
(* Time is counted in units of ten minutes.  Python values of differing    *)
(* type that meet in one field are tagged records: None, an EWSDateTime    *)
(* and the string EWSDateTime.ewsformat() renders.  A Python dict is a     *)
(* TLA+ record whose DOMAIN is the set of keys present.                    *)
(***************************************************************************)
EXTENDS Integers, Sequences, FiniteSets, TLC

\* ---- bounds of the model ----
\* the clock runs over 0..MaxTime
MaxTime == 2
\* number of items that arrive in the folder over a run
MaxItems == 3
\* the rate-limit handler is not entered once errorCounter reached this value
MaxErrorCounter == 3
\* EWSClient.last_run_ids_queue_size (500 in the source), scaled down so that
\* the window overflows within MaxItems arrivals and still holds the ids of a
\* whole poll, as 500 holds those of the 50 incidents a poll is limited to
last_run_ids_queue_size == 2

\* ---- program constants ----
\* timedelta(minutes=10), in clock units
TenMinutes == 1

\* ---- Python values ----
None == [type |-> "NoneType", v |-> 0]
\* a datetime, v in clock units
EWSDateTime(t) == [type |-> "EWSDateTime", v |-> t]
\* a timestamp string "%Y-%m-%dT%H:%M:%SZ"
Str(t) == [type |-> "str", v |-> t]

\* EWSDateTime.ewsformat(): the datetime rendered as a string
ewsformat(d) == Str(d.v)
\* EWSDateTime.from_string(): the string parsed into a datetime
from_string(s) == EWSDateTime(s.v)
\* faulty variant: the comparison is strict
DtGE_Strict(a, b) == a.v > b.v

\* a >= b on datetimes
DtGE(a, b) == a.v >= b.v

\* the empty dict demisto.getLastRun() returns before any setLastRun
EmptyDict == [k \in {} |-> None]
\* dict.get(key), default None
Get(d, k) == IF k \in DOMAIN d THEN d[k] ELSE None
\* d[key] = value
Put(d, k, val) == [x \in DOMAIN d \cup {k} |-> IF x = k THEN val ELSE d[x]]

LAST_RUN_TIME == "lastRunTime"
LAST_RUN_IDS == "ids"
LAST_RUN_FOLDER == "folderName"
ERROR_COUNTER == "errorCounter"

\* ---- the mailbox ----
MessageIds == <<"m1", "m2", "m3">>
\* an item without a Message-ID header (falsy message_id)
NoMessageId == ""
Kinds == {"Message", "Other"}

\* ---- deque(iterable, maxlen) and deque.append ----
LastN(s, n) == IF Len(s) <= n THEN s ELSE SubSeq(s, Len(s) - n + 1, Len(s))

\* faulty variant: the window starts empty whatever ids are loaded
deque_Empty(s, maxlen) == <<>>

deque(s, maxlen) == LastN(s, maxlen)

\* faulty variant: the window grows without bound
deque_append_Unbounded(d, x, maxlen) == Append(d, x)

\* faulty variant: a full window drops the id that arrives
deque_append_DropNewest(d, x, maxlen) == IF Len(d) < maxlen THEN Append(d, x) ELSE d

deque_append(d, x, maxlen) == LastN(Append(d, x), maxlen)

SeqToSet(s) == {s[i] : i \in 1..Len(s)}

VARIABLES
  lastRun,      \* the dict behind demisto.getLastRun() / demisto.setLastRun()
  mailbox,      \* the items in the configured folder
  now,          \* the clock
  max_fetch,    \* client.max_fetch
  emitted,      \* message ids handed to demisto.incidents() so far
  dup,          \* some message id was handed to demisto.incidents() twice
  last,         \* the poll that just ended: the last run before it, what the
                \* store did (met, and at: 0 the query, 1 the first incident,
                \* 2 a later one), what sub_main handed over or raised
  rl_streak,    \* number of consecutive rate-limited polls just ended (capped;
                \* recorded under SpecBackoff only)
  rl_base,      \* lastRun before the first poll of that run
  prev,         \* how the poll before ended, "none" once an item has arrived
                \* since (recorded under SpecRepeat only)
  owed,         \* ids of the items some poll's query covered whose Message-ID
                \* no poll has handed over yet (recorded under SpecLive only)
  call          \* the command other than fetch-incidents under way, if any

vars == <<lastRun, mailbox, now, max_fetch, emitted, dup, last, rl_streak, rl_base,
          prev, owed, call>>

\* the state fetch-incidents works on, which no other command touches
pollVars == <<lastRun, mailbox, now, max_fetch, emitted, dup, last, rl_streak,
              rl_base, prev, owed>>

\* no command other than fetch-incidents is under way
NoCall == [command |-> "none"]

folder_name == "Inbox"

\* ---- get_last_run ----
\* faulty variant: the folder the cursor was stored for is not looked at
get_last_run_AnyFolder(stored, folder) ==
  LET lr1 == IF stored = EmptyDict
             THEN [lastRunTime |-> None, folderName |-> folder, ids |-> <<>>]
             ELSE stored
      lr2 == IF LAST_RUN_TIME \in DOMAIN lr1 /\ lr1[LAST_RUN_TIME] # None
             THEN Put(lr1, LAST_RUN_TIME, from_string(lr1[LAST_RUN_TIME]))
             ELSE lr1
  IN IF LAST_RUN_IDS \notin DOMAIN lr2 THEN Put(lr2, LAST_RUN_IDS, <<>>) ELSE lr2

get_last_run(stored, folder) ==
  LET lr1 == IF stored = EmptyDict \/ Get(stored, LAST_RUN_FOLDER) # folder
             THEN [lastRunTime |-> None, folderName |-> folder, ids |-> <<>>]
             ELSE stored
      lr2 == IF LAST_RUN_TIME \in DOMAIN lr1 /\ lr1[LAST_RUN_TIME] # None
             THEN Put(lr1, LAST_RUN_TIME, from_string(lr1[LAST_RUN_TIME]))
             ELSE lr1
  IN \* last_run.get(LAST_RUN_IDS) is None: no setLastRun of this code stores
     \* None under "ids", so the test is that of the key being absent
     IF LAST_RUN_IDS \notin DOMAIN lr2 THEN Put(lr2, LAST_RUN_IDS, <<>>) ELSE lr2

\* ---- fetch_last_emails ----
\* faulty variant: the store returns the items in any order
order_by_received_Unordered(S) ==
  {q \in [1..Cardinality(S) -> S] : \A i, j \in DOMAIN q : i # j => q[i] # q[j]}

\* qs.order_by("datetime_received"): the orders the store may return S in
order_by_received(S) ==
  {q \in [1..Cardinality(S) -> S] :
     /\ \A i, j \in DOMAIN q : i # j => q[i] # q[j]
     /\ \A i, j \in DOMAIN q :
          i < j => q[i].datetime_received.v <= q[j].datetime_received.v}

\* the lower bound of the query
since(since_datetime, t) ==
  IF since_datetime # None THEN since_datetime ELSE EWSDateTime(t - TenMinutes)

IsMessage(x) == x.kind = "Message"

\* faulty variant: the ids of the cursor are not excluded
fetch_last_emails_NoExclude(qs, since_datetime, exclude_ids, t) ==
  LET bound == since(since_datetime, t)
      InRange(x) == DtGE(x.datetime_received, bound)
  IN SelectSeq(SelectSeq(qs, InRange), IsMessage)

fetch_last_emails(qs, since_datetime, exclude_ids, t) ==
  LET bound == since(since_datetime, t)
      InRange(x) == DtGE(x.datetime_received, bound)
      NotExcluded(x) == x.message_id \notin SeqToSet(exclude_ids)
      result == SelectSeq(SelectSeq(qs, InRange), IsMessage)
  IN IF Len(exclude_ids) > 0 THEN SelectSeq(result, NotExcluded) ELSE result

\* ---- parse_incident_from_item ----
\* exc: the exception the remote calls of this item end in, "none" if they succeed
parse_incident_from_item(item, exc) ==
  [exc |-> exc,
   incident |-> [occurred |-> ewsformat(item.datetime_created),
                 message_id |-> item.message_id,
                 item_id |-> item.id]]

\* ---- fetch_emails_as_incidents ----
\* env: what the remote store does in this poll: env.kind is "ok" or the
\* exception it raises, env.at is 0 for the query of fetch_last_emails and k
\* for the remote calls made while the k-th incident is built.
ExcAt(env, k) == IF env.kind # "ok" /\ env.at = k THEN env.kind ELSE "none"

\* faulty variant: an item without a Message-ID is taken too
HasMessageId_Any(item) == TRUE

\* if item.message_id: a falsy Message-ID skips the item
HasMessageId(item) == item.message_id # NoMessageId

\* the for loop over last_emails, from position i on; incident is the loop's
\* variable of that name, the incident built last
RECURSIVE ItemLoop(_, _, _, _, _, _, _)
ItemLoop(last_emails, i, ids, incidents, incident, env, limit) ==
  IF i > Len(last_emails)
  THEN [exc |-> "none", ids |-> ids, incidents |-> incidents, incident |-> incident]
  ELSE
    LET item == last_emails[i] IN
    IF HasMessageId(item)
    THEN
      LET ids2 == deque_append(ids, item.message_id, last_run_ids_queue_size)
          p == parse_incident_from_item(item, ExcAt(env, Len(incidents) + 1))
          incidents2 == Append(incidents, p.incident)
      IN IF p.exc # "none"
         THEN [exc |-> p.exc, ids |-> ids2, incidents |-> incidents,
               incident |-> incident]
         ELSE IF Len(incidents2) >= limit
              THEN [exc |-> "none", ids |-> ids2, incidents |-> incidents2,
                    incident |-> p.incident]
              ELSE ItemLoop(last_emails, i + 1, ids2, incidents2, p.incident, env, limit)
    ELSE ItemLoop(last_emails, i + 1, ids, incidents, incident, env, limit)

\* faulty variant: the rate-limit failure is surfaced one poll later
Surfaced_Late(counter) == counter > 3

\* if last_run[ERROR_COUNTER] > 2: raise
Surfaced(counter) == counter > 2

\* the except RateLimitError branch
OnRateLimitError(last_run) ==
  IF LAST_RUN_TIME \in DOMAIN last_run
       /\ last_run[LAST_RUN_TIME].type # "EWSDateTime"
  THEN \* None has no ewsformat(): the handler itself raises, before setLastRun
       [exc |-> "AttributeError", set |-> FALSE, new |-> last_run, incidents |-> <<>>]
  ELSE
    LET lr1 == IF LAST_RUN_TIME \in DOMAIN last_run
               THEN Put(last_run, LAST_RUN_TIME, ewsformat(last_run[LAST_RUN_TIME]))
               ELSE last_run
        lr2 == IF ERROR_COUNTER \notin DOMAIN lr1 THEN Put(lr1, ERROR_COUNTER, 0) ELSE lr1
        lr3 == Put(lr2, ERROR_COUNTER, lr2[ERROR_COUNTER] + 1)
    IN [exc |-> IF Surfaced(lr3[ERROR_COUNTER]) THEN "RateLimitError" ELSE "none",
        set |-> TRUE, new |-> lr3, incidents |-> <<>>]

\* faulty variant: an unset lastRunTime is stored as the start of time
last_run_time_Default(incident, last_run) ==
  LET t0 == IF "occurred" \in DOMAIN incident
            THEN incident.occurred ELSE Get(last_run, LAST_RUN_TIME)
  IN IF t0.type = "EWSDateTime" THEN ewsformat(t0)
     ELSE IF t0 = None THEN Str(0) ELSE t0

\* faulty variant: the watermark is never taken from the incidents
last_run_time_Stale(incident, last_run) ==
  LET t0 == Get(last_run, LAST_RUN_TIME)
  IN IF t0.type = "EWSDateTime" THEN ewsformat(t0) ELSE t0

\* last_run_time = incident.get("occurred", last_run.get(LAST_RUN_TIME)),
\* rendered when it is an EWSDateTime
last_run_time(incident, last_run) ==
  LET t0 == IF "occurred" \in DOMAIN incident
            THEN incident.occurred ELSE Get(last_run, LAST_RUN_TIME)
  IN IF t0.type = "EWSDateTime" THEN ewsformat(t0) ELSE t0

\* faulty variant: a successful poll stores no error counter
new_last_run_NoCounter(last_run, time, ids) ==
  [lastRunTime |-> time, folderName |-> folder_name, ids |-> ids]

\* faulty variant: the ids are not stored
new_last_run_ForgetIds(last_run, time, ids) ==
  [lastRunTime |-> time, folderName |-> folder_name, ids |-> <<>>, errorCounter |-> 0]

\* faulty variant: the error counter of the loaded cursor is carried over
new_last_run_KeepCounter(last_run, time, ids) ==
  [lastRunTime |-> time, folderName |-> folder_name, ids |-> ids,
   errorCounter |-> IF ERROR_COUNTER \in DOMAIN last_run
                    THEN last_run[ERROR_COUNTER] ELSE 0]

\* the dict a successful poll stores
new_last_run(last_run, time, ids) ==
  [lastRunTime |-> time, folderName |-> folder_name, ids |-> ids, errorCounter |-> 0]

\* faulty variant: the handler catches every exception
IsRateLimitError_Any(exc) == exc # "none"

\* except RateLimitError: the one exception the function handles
IsRateLimitError(exc) == exc = "RateLimitError"

\* the try block after a fetch_last_emails that returned
OnFetched(last_run, last_emails, env, limit) ==
  LET ids == deque(last_run[LAST_RUN_IDS], last_run_ids_queue_size)
      loop == ItemLoop(last_emails, 1, ids, <<>>, EmptyDict, env, limit)
  IN IF IsRateLimitError(loop.exc) THEN OnRateLimitError(last_run)
     ELSE IF loop.exc # "none"
          THEN [exc |-> loop.exc, set |-> FALSE, new |-> last_run, incidents |-> <<>>]
          ELSE [exc |-> "none", set |-> TRUE,
                new |-> new_last_run(last_run, last_run_time(loop.incident, last_run),
                                     loop.ids),
                incidents |-> loop.incidents]

fetch_emails_as_incidents(stored, qs, t, env, limit) ==
  LET last_run == get_last_run(stored, folder_name)
      fetch_exc == ExcAt(env, 0)
      last_emails == fetch_last_emails(qs, Get(last_run, LAST_RUN_TIME),
                                       Get(last_run, LAST_RUN_IDS), t)
  IN IF IsRateLimitError(fetch_exc) THEN OnRateLimitError(last_run)
     ELSE IF fetch_exc # "none"
          THEN [exc |-> fetch_exc, set |-> FALSE, new |-> last_run, incidents |-> <<>>]
          ELSE OnFetched(last_run, last_emails, env, limit)

\* ---- the environment ----
\* exceptions of the remote store that sub_main re-raises for fetch-incidents
OtherErrors == {"TransportError", "ErrorIrresolvableConflict"}
\* exceptions sub_main answers with demisto.incidents([]) and sys.exit(0)
Unavailable == {"ErrorMailboxStoreUnavailable", "ErrorMailboxMoveInProgress"}

\* what the store may do in a poll that would build n incidents if nothing
\* failed: the query (at = 0) and the remote calls made for each incident
\* (item.save(), attachment content) can raise; only item.save() conflicts
Envs(n) ==
  {[kind |-> "ok", at |-> 0]}
    \cup [kind : {"RateLimitError", "TransportError"} \cup Unavailable, at : 0..n]
    \cup [kind : {"ErrorIrresolvableConflict"}, at : 1..n]

EnvKinds == {"ok", "RateLimitError"} \cup OtherErrors \cup Unavailable

ErrorCounterOf(d) == IF ERROR_COUNTER \in DOMAIN d THEN d[ERROR_COUNTER] ELSE 0

\* the times an item entering the folder at t may have been created at
CreatedAt(t) == {c \in {t - 1, t} : c >= 0}

\* the Message-IDs an item entering folder content S may carry: one an item
\* of S carries already, or the first unused one (Message-IDs are opaque, so
\* which unused one it is makes no difference)
UsedIds(S) == {x.message_id : x \in S} \ {NoMessageId}
FreshIds(S) ==
  IF Cardinality(UsedIds(S)) < Len(MessageIds)
  THEN {MessageIds[Cardinality(UsedIds(S)) + 1]} ELSE {}

\* the items that may enter folder content S at time t: received at t, created
\* then or one unit earlier.  A Message carries a Message-ID or none; an item
\* of another kind carries one too (a post item has the field without being
\* a Message), without one it would be stopped twice over.  An item that
\* cannot become an incident has its creation time never read.
NewItems(S, t) ==
  {[id |-> Cardinality(S) + 1, kind |-> "Message", message_id |-> m,
    datetime_received |-> EWSDateTime(t), datetime_created |-> EWSDateTime(c)] :
      m \in UsedIds(S) \cup FreshIds(S), c \in CreatedAt(t)}
  \cup
  {[id |-> Cardinality(S) + 1, kind |-> kd, message_id |-> m,
    datetime_received |-> EWSDateTime(t), datetime_created |-> EWSDateTime(t)] :
      kd \in Kinds \ {"Message"}, m \in FreshIds(S)}
  \cup
  {[id |-> Cardinality(S) + 1, kind |-> "Message", message_id |-> NoMessageId,
    datetime_received |-> EWSDateTime(t), datetime_created |-> EWSDateTime(t)]}

\* rl_streak stops counting here
StreakCap == MaxErrorCounter

NoPoll ==
  [polled |-> FALSE, before |-> EmptyDict, t |-> 0, met |-> "ok", raised |-> "none",
   at |-> 0, called |-> FALSE, set |-> FALSE, incidents |-> <<>>, candidates |-> 0]

\* EWSClient.__init__: self.max_fetch = min(50, int(max_fetch)); the limit and
\* the configured values are scaled down with the mailbox
MaxFetchLimit == 2
MaxFetchParams == {1, MaxFetchLimit + 1}
Min(a, b) == IF a <= b THEN a ELSE b
client_max_fetch(param) == Min(MaxFetchLimit, param)

Init ==
  /\ lastRun = EmptyDict
  /\ mailbox = {}
  /\ now = 0
  /\ max_fetch \in {client_max_fetch(p) : p \in MaxFetchParams}
  /\ emitted = {}
  /\ dup = FALSE
  /\ last = NoPoll
  /\ rl_streak = 0
  /\ rl_base = EmptyDict
  /\ prev = "none"
  /\ owed = {}
  /\ call = NoCall

\* an item is delivered, moved or copied into the folder
Arrive ==
  /\ ~last.polled
  /\ Cardinality(mailbox) < MaxItems
  /\ \E item \in NewItems(mailbox, now) : mailbox' = mailbox \cup {item}
  /\ prev' = "none"
  /\ UNCHANGED <<lastRun, now, max_fetch, emitted, dup, last, rl_streak, rl_base,
                 owed, call>>

Tick ==
  /\ ~last.polled
  /\ now < MaxTime
  /\ now' = now + 1
  /\ UNCHANGED <<lastRun, mailbox, max_fetch, emitted, dup, last, rl_streak, rl_base,
                 prev, owed, call>>

\* how the poll that just ended is remembered: "complete" when it succeeded,
\* handed over every candidate (max_fetch did not end it), pushed no id out
\* of the window and stored a lastRunTime not before its own watermark;
\* "succeeded" when it succeeded otherwise; "failed" in any other case
Outcome ==
  LET last_run == get_last_run(last.before, folder_name)
      bound == since(Get(last_run, LAST_RUN_TIME), last.t)
  IN IF last.met # "ok" THEN "failed"
     ELSE IF /\ last.candidates = Len(last.incidents)
             /\ Len(last_run[LAST_RUN_IDS]) + Len(last.incidents)
                  <= last_run_ids_queue_size
             /\ \/ Get(lastRun, LAST_RUN_TIME) = None
                \/ lastRun[LAST_RUN_TIME].v >= bound.v
          THEN "complete" ELSE "succeeded"

\* the invocation ends (sub_main's finally block, process exit): what the
\* poll returned or raised has gone to the platform, the last run stays;
\* recorded says whether the outcome is remembered
Leave(recorded) ==
  /\ last.polled
  /\ last' = NoPoll
  /\ prev' = IF recorded THEN Outcome ELSE prev
  /\ UNCHANGED <<lastRun, mailbox, now, max_fetch, emitted, dup, rl_streak, rl_base,
                 owed, call>>

Exit == Leave(FALSE)

MessageIdsOf(incidents) == {incidents[i].message_id : i \in 1..Len(incidents)}
HasRepeat(incidents) ==
  \E i, j \in 1..Len(incidents) : i # j /\ incidents[i].message_id = incidents[j].message_id

\* the fetched items that carry a Message-ID, in the order the loop meets them
Candidates(stored, qs, t) ==
  LET last_run == get_last_run(stored, folder_name)
  IN SelectSeq(fetch_last_emails(qs, Get(last_run, LAST_RUN_TIME),
                                 Get(last_run, LAST_RUN_IDS), t), HasMessageId)

\* the items of folder content S a query at time t on the last run stored
\* covers (a Message with a Message-ID received at or after the watermark)
\* and whose Message-ID is not among handed
Owing(S, stored, t, handed) ==
  LET time == IF LAST_RUN_TIME \in DOMAIN stored /\ LAST_RUN_FOLDER \in DOMAIN stored
                 /\ stored[LAST_RUN_FOLDER] = folder_name
                 /\ stored[LAST_RUN_TIME] # None
              THEN stored[LAST_RUN_TIME].v ELSE t - TenMinutes
  IN {x.id : x \in {y \in S : /\ y.kind = "Message"
                               /\ y.message_id # NoMessageId
                               /\ y.datetime_received.v >= time
                               /\ y.message_id \notin handed}}

\* sub_main with command "fetch-incidents", one scheduling tick; counted says
\* whether the run of consecutive rate-limited polls is recorded, kinds what
\* the store may do, owing whether the items still owed are recorded
PollOf(counted, kinds, owing) ==
  /\ ~last.polled
  /\ \E qs \in order_by_received(mailbox) :
   \E n \in {Len(Candidates(lastRun, qs, now))} :
    \E env \in {e \in Envs(IF max_fetch >= 1 THEN Min(n, max_fetch) ELSE Min(n, 1)) :
                  e.kind \in kinds} :
     \E r \in {fetch_emails_as_incidents(lastRun, qs, now, env, max_fetch)} :
      LET absorbed == r.exc \in Unavailable
          handed == IF r.exc = "none" THEN r.incidents ELSE <<>>
          rate == env.kind = "RateLimitError"
      IN /\ rate => ErrorCounterOf(lastRun) < MaxErrorCounter
         /\ lastRun' = IF r.set THEN r.new ELSE lastRun
         /\ emitted' = emitted \cup MessageIdsOf(handed)
         /\ dup' = (dup \/ HasRepeat(handed) \/ MessageIdsOf(handed) \cap emitted # {})
         /\ last' = [polled |-> TRUE, before |-> lastRun, t |-> now, met |-> env.kind,
                     at |-> Min(env.at, 2),
                     raised |-> IF r.exc = "none" \/ absorbed THEN "none" ELSE r.exc,
                     called |-> (r.exc = "none" \/ absorbed),
                     set |-> r.set, incidents |-> handed,
                     candidates |-> n]
         /\ rl_streak' = IF counted /\ rate THEN Min(rl_streak + 1, StreakCap) ELSE 0
         /\ rl_base' = IF counted /\ rate
                       THEN (IF rl_streak = 0 THEN lastRun ELSE rl_base)
                       ELSE EmptyDict
         /\ owed' = IF owing
                    THEN {k \in owed \cup Owing(mailbox, lastRun, now, {}) :
                            \A x \in mailbox :
                              x.id = k => x.message_id \notin emitted'}
                    ELSE owed
         /\ UNCHANGED <<mailbox, now, max_fetch, prev, call>>

Poll(counted) == PollOf(counted, EnvKinds, FALSE)

FetchIncidents == Poll(FALSE)

Next == Arrive \/ Tick \/ FetchIncidents \/ Exit

Spec == Init /\ [][Next]_vars

\* the same system with the runs of consecutive rate-limited polls recorded,
\* under the configured max_fetch above the limit
FetchIncidentsCounted == Poll(TRUE)

InitBackoff == Init /\ max_fetch = client_max_fetch(MaxFetchLimit + 1)

NextBackoff == Arrive \/ Tick \/ FetchIncidentsCounted \/ Exit

SpecBackoff == InitBackoff /\ [][NextBackoff]_vars

\* the same system with the outcome of each poll remembered until an item
\* arrives, under the configured max_fetch above the limit
ExitRecorded == Leave(TRUE)

NextRepeat == Arrive \/ Tick \/ FetchIncidents \/ ExitRecorded

SpecRepeat == InitBackoff /\ [][NextRepeat]_vars

\* sub_main with command "fetch-incidents" stopped (the process is killed,
\* the tick times out) after fetch_emails_as_incidents has called
\* demisto.setLastRun and before demisto.incidents is reached: the last run
\* is stored, nothing is handed over
FetchIncidentsInterrupted ==
  /\ ~last.polled
  /\ \E qs \in order_by_received(mailbox) :
   \E n \in {Len(Candidates(lastRun, qs, now))} :
    \E r \in {fetch_emails_as_incidents(lastRun, qs, now, [kind |-> "ok", at |-> 0],
                                         max_fetch)} :
      /\ lastRun' = IF r.set THEN r.new ELSE lastRun
      /\ last' = [polled |-> TRUE, before |-> lastRun, t |-> now,
                  met |-> "Interrupted", at |-> 0, raised |-> "Interrupted",
                  called |-> FALSE, set |-> r.set, incidents |-> <<>>,
                  candidates |-> n]
      /\ rl_streak' = 0
      /\ rl_base' = EmptyDict
      /\ UNCHANGED <<mailbox, now, max_fetch, emitted, dup, prev, owed, call>>

NextInterrupt == Arrive \/ Tick \/ FetchIncidents \/ FetchIncidentsInterrupted \/ Exit

SpecInterrupt == InitBackoff /\ [][NextInterrupt]_vars

\* the same system with every poll succeeding and the items still owed
\* recorded.  An item may also enter the folder with a creation time after
\* its received time: a message copied or moved into the folder keeps the
\* time it was received and is created in the folder now, and the store
\* stamps a delivered message as created after the transport received it
ArriveStoredLate ==
  /\ ~last.polled
  /\ Cardinality(mailbox) < MaxItems
  /\ \E m \in FreshIds(mailbox) :
       mailbox' = mailbox \cup
         {[id |-> Cardinality(mailbox) + 1, kind |-> "Message", message_id |-> m,
           datetime_received |-> EWSDateTime(now),
           datetime_created |-> EWSDateTime(now + 1)]}
  /\ prev' = "none"
  /\ UNCHANGED <<lastRun, now, max_fetch, emitted, dup, last, rl_streak, rl_base,
                 owed, call>>

FetchIncidentsOwing == PollOf(FALSE, {"ok"}, TRUE)

NextLive == Arrive \/ ArriveStoredLate \/ Tick \/ FetchIncidentsOwing \/ Exit

\* the platform runs fetch-incidents again at every interval and every
\* invocation ends
SpecLive ==
  /\ Init
  /\ [][NextLive]_vars
  /\ WF_vars(FetchIncidentsOwing)
  /\ WF_vars(Exit)

\* the same system under a configured max_fetch of zero or below, which
\* int(max_fetch) and min(50, ...) let through as they are
NonPositiveMaxFetchParams == {0 - 1, 0}

InitMaxFetch ==
  /\ lastRun = EmptyDict
  /\ mailbox = {}
  /\ now = 0
  /\ max_fetch \in {client_max_fetch(p) : p \in NonPositiveMaxFetchParams}
  /\ emitted = {}
  /\ dup = FALSE
  /\ last = NoPoll
  /\ rl_streak = 0
  /\ rl_base = EmptyDict
  /\ prev = "none"
  /\ owed = {}
  /\ call = NoCall

SpecMaxFetch == InitMaxFetch /\ [][Next]_vars

\* the same system started on what an earlier configuration left behind: the
\* instance polled another folder, stored a cursor for it and was then
\* pointed at folder_name
PreviousFolder == "Archive"
PreviousCursors ==
  {[lastRunTime |-> ewsformat(EWSDateTime(0)), folderName |-> PreviousFolder,
    ids |-> <<MessageIds[1]>>, errorCounter |-> 0]}

InitFolder ==
  /\ lastRun \in PreviousCursors
  /\ mailbox = {}
  /\ now = 0
  /\ max_fetch = client_max_fetch(MaxFetchLimit + 1)
  /\ emitted = {}
  /\ dup = FALSE
  /\ last = NoPoll
  /\ rl_streak = 0
  /\ rl_base = EmptyDict
  /\ prev = "none"
  /\ owed = {}
  /\ call = NoCall

SpecFolder == InitFolder /\ [][Next]_vars

\* ---- sub_main: a command other than a poll, and the exception handler ----
\* the commands told apart by sub_main: test-module, fetch-incidents,
\* ews-search-mailbox (its ValueError goes to return_error), one of the
\* other normal commands and one of the special output commands
Commands ==
  {"test-module", "fetch-incidents", "ews-search-mailbox", "ews-get-items",
   "ews-get-attachment"}

\* the exception classes the handler tells apart; "Exception" is any other
Exceptions ==
  Unavailable \cup {"ConnectionError", "ErrorInvalidPropertyRequest",
                    "MalformedResponseError", "ValueError", "Exception"}

\* log_stream.getvalue(): the root logger is set to DEBUG by start_logging,
\* so the log holds what the remote library logged about each response of
\* the invocation; the handler reads two things from it
DebugLogs == [status401 : BOOLEAN, status503 : BOOLEAN]

\* a text is the sequence of the parts it is concatenated from; str(e) is
\* stood for by the class name of e
log_message ==
  "Office365 is undergoing load balancing operations. As a result, the service is temporarily unavailable."
RetryTest == " Please retry the instance configuration test."
RetryRequest == " Please retry your request."
CouldNotConnect ==
  "Could not connect to the server. Verify that the Hostname or IP address is correct. Additional information: "
VerifyVersion == "Verify that the Exchange version is correct."
InvalidResponse ==
  "Got invalid response from the server. Verify that the Hostname or IP address is is correct."
Unauthorized ==
  "Got unauthorized from the server. Check credentials are correct and authentication method are supported. "
GotTimeout ==
  "Got timeout from the server. Probably the server is not reachable with the current settings. Check proxy parameter. If you are using server URL - change to server IP address. "
InvalidField == "Selected invalid field, please specify valid field name."

NoEntry == [Type |-> "none", Contents |-> <<>>]
NoteEntry(text) == [Type |-> "note", Contents |-> text]
ErrorEntry(text) == [Type |-> "error", Contents |-> text]

NotCalled == [called |-> FALSE, arg |-> <<>>]
Called(arg) == [called |-> TRUE, arg |-> arg]

\* what one invocation of sub_main leaves: whether demisto.incidents was
\* called and with what, the entry given to
\* demisto.results, and how it ends ("return", "exit" for sys.exit(0),
\* "raise" for the exception re-raised)
Out(incidents, results, ends) ==
  [incidents |-> incidents, results |-> results, ends |-> ends]

\* error_message_simple as the handler builds it, before "if not
\* error_message_simple"
error_message_simple(command, e, debug_log) ==
  LET is_test_module == command = "test-module"
      m1 == IF e \in Unavailable THEN <<log_message, RetryRequest>> ELSE <<>>
      m2 == IF e = "ConnectionError" THEN <<CouldNotConnect, e>> ELSE m1
      m3 == IF e = "ErrorInvalidPropertyRequest" THEN <<VerifyVersion>>
            ELSE IF is_test_module /\ e = "MalformedResponseError"
                 THEN <<InvalidResponse>> ELSE m2
      m4 == IF debug_log.status401 THEN <<Unauthorized>> ELSE m3
      m5 == IF debug_log.status503 THEN <<GotTimeout>> ELSE m4
  IN m5

\* the except block of sub_main for exception e of the command
sub_main_except(command, e, debug_log) ==
  LET is_test_module == command = "test-module"
      simple == error_message_simple(command, e, debug_log)
      text == IF simple = <<>> THEN <<e>> ELSE simple
  IN IF e \in Unavailable /\ command = "fetch-incidents"
     THEN Out(Called(<<>>), NoEntry, "exit")
     ELSE IF e \in Unavailable /\ is_test_module
     THEN Out(NotCalled, NoteEntry(<<log_message, RetryTest>>), "exit")
     ELSE IF command = "fetch-incidents"
     THEN Out(NotCalled, NoEntry, "raise")
     ELSE IF command = "ews-search-mailbox" /\ e = "ValueError"
     THEN Out(NotCalled, ErrorEntry(<<InvalidField>>), "exit")
     ELSE IF is_test_module
     THEN Out(NotCalled, NoteEntry(text), "return")
     ELSE Out(NotCalled, ErrorEntry(text), "return")

\* an invocation of sub_main about to run: the command, the exception the
\* command raises (or "none") and the debug log at that point
Invocations ==
  [command : Commands, e : Exceptions \cup {"none"}, debug_log : DebugLogs,
   done : {FALSE}, out : {Out(NotCalled, NoEntry, "return")}]

\* sub_main: the command runs; when it raises, the except block answers
sub_main ==
  /\ call.command \in Commands
  /\ ~call.done
  /\ call' = [call EXCEPT
       !.done = TRUE,
       !.out = IF call.e = "none"
               THEN (IF call.command = "fetch-incidents"
                     THEN Out(Called(<<>>), NoEntry, "return")
                     ELSE Out(NotCalled, NoteEntry(<<"ok">>), "return"))
               ELSE sub_main_except(call.command, call.e, call.debug_log)]
  /\ UNCHANGED pollVars


\* no poll has run and the folder is empty
Quiet ==
  /\ lastRun = EmptyDict /\ mailbox = {} /\ now = 0
  /\ max_fetch = client_max_fetch(MaxFetchLimit + 1)
  /\ emitted = {} /\ dup = FALSE /\ last = NoPoll
  /\ rl_streak = 0 /\ rl_base = EmptyDict /\ prev = "none" /\ owed = {}

InitErrors == Quiet /\ call \in Invocations

SpecErrors == InitErrors /\ [][sub_main]_vars

\* ---- EWSClient.get_items_from_mailbox ----
\* the item ids a store may hold and a caller may ask for
ItemIds == 1..MaxItems

Item(x) == [kind |-> "Item", id |-> x]
ErrorItemNotFound(x) == [kind |-> "ErrorItemNotFound", id |-> x]

\* account.fetch(ids=items): one element per requested id, in order, the
\* item when the store holds it and an ErrorItemNotFound otherwise
account_fetch(store, items) ==
  [i \in 1..Len(items) |->
     IF items[i].id \in store THEN items[i] ELSE ErrorItemNotFound(items[i].id)]

NotErrorItemNotFound(x) == x.kind # "ErrorItemNotFound"

Returned(result) == [raised |-> FALSE, result |-> result]
Raised == [raised |-> TRUE, result |-> <<>>]

\* a faulty variant: raises only when nothing was found
get_items_from_mailbox_AnyFound(store, item_ids) ==
  LET items == [i \in 1..Len(item_ids) |-> Item(item_ids[i])]
      result == SelectSeq(account_fetch(store, items), NotErrorItemNotFound)
  IN IF Len(result) = 0 THEN Raised ELSE Returned(result)

get_items_from_mailbox(store, item_ids) ==
  LET items == [i \in 1..Len(item_ids) |-> Item(item_ids[i])]
      result == SelectSeq(account_fetch(store, items), NotErrorItemNotFound)
  IN IF Len(result) # Len(item_ids) THEN Raised ELSE Returned(result)

\* the lists of item ids a caller may pass
ItemIdLists ==
  UNION {[1..n -> ItemIds] : n \in 1..MaxItems}

GetItemsCalls ==
  [command : {"get_items_from_mailbox"}, store : SUBSET ItemIds,
   item_ids : ItemIdLists, done : {FALSE}, out : {Raised}]

GetItems ==
  /\ call.command = "get_items_from_mailbox"
  /\ ~call.done
  /\ call' = [call EXCEPT !.done = TRUE,
                          !.out = get_items_from_mailbox(call.store, call.item_ids)]
  /\ UNCHANGED pollVars

InitGetItems == Quiet /\ call \in GetItemsCalls

SpecGetItems == InitGetItems /\ [][GetItems]_vars

\* ---- parse_incident_from_item: mark as read ----
\* what one item.save() may do: succeed or raise
SaveOutcomes == {"ok", "RateLimitError"} \cup OtherErrors \cup Unavailable

\* what the block leaves: the number of item.save() calls made, item.is_read
\* as assigned, whether time.sleep(0.5) ran, the exception raised or "none"
Saved(attempts, is_read, slept, raised) ==
  [attempts |-> attempts, is_read |-> is_read, slept |-> slept,
   raised |-> IF raised = "ok" THEN "none" ELSE raised]

\* a faulty variant: any exception of the first save is retried
mark_item_as_read_RetryAny(mark_as_read, is_fetch, saves) ==
  IF mark_as_read /\ is_fetch
  THEN IF saves[1] # "ok"
       THEN Saved(2, TRUE, TRUE, saves[2])
       ELSE Saved(1, TRUE, FALSE, saves[1])
  ELSE Saved(0, FALSE, FALSE, "ok")

\* the block "if client.mark_as_read and is_fetch"; saves[k] is what the
\* k-th item.save() call does
mark_item_as_read(mark_as_read, is_fetch, saves) ==
  IF mark_as_read /\ is_fetch
  THEN IF saves[1] = "ErrorIrresolvableConflict"
       THEN Saved(2, TRUE, TRUE, saves[2])
       ELSE Saved(1, TRUE, FALSE, saves[1])
  ELSE Saved(0, FALSE, FALSE, "ok")

MarkAsReadCalls ==
  [command : {"parse_incident_from_item"}, mark_as_read : BOOLEAN,
   is_fetch : BOOLEAN, saves : [1..2 -> SaveOutcomes], done : {FALSE},
   out : {Saved(0, FALSE, FALSE, "ok")}]

MarkAsRead ==
  /\ call.command = "parse_incident_from_item"
  /\ ~call.done
  /\ call' = [call EXCEPT
       !.done = TRUE,
       !.out = mark_item_as_read(call.mark_as_read, call.is_fetch, call.saves)]
  /\ UNCHANGED pollVars

InitMarkAsRead == Quiet /\ call \in MarkAsReadCalls

SpecMarkAsRead == InitMarkAsRead /\ [][MarkAsRead]_vars

\* ---- keys_to_camel_case ----
\* a str is the sequence of its characters
MaxStrLen == 3
Alphabet == {"a", "A", "_"}
Strings == UNION {[1..n -> Alphabet] : n \in 1..MaxStrLen}

\* Python values, each with its type (t), its characters or digits (s) and
\* its elements or items (items)
PyNone == [t |-> "NoneType", s |-> <<>>, items |-> <<>>]
PyInt == [t |-> "int", s |-> <<"1">>, items |-> <<>>]
PyBool == [t |-> "bool", s |-> <<"True">>, items |-> <<>>]
PyStr(chars) == [t |-> "str", s |-> chars, items |-> <<>>]
PyList(elements) == [t |-> "list", s |-> <<>>, items |-> elements]
\* a dict holds its items in insertion order, an item its key and value
PyDict(items) == [t |-> "dict", s |-> <<>>, items |-> items]
PyItem(k, v) == [t |-> "item", s |-> <<>>, items |-> <<k, v>>]

\* dict(pairs): a key met again keeps its place and takes the later value
RECURSIVE dict(_)
dict(pairs) ==
  IF pairs = <<>> THEN <<>>
  ELSE LET n == Len(pairs)
           d == dict(SubSeq(pairs, 1, n - 1))
       IN IF \E i \in 1..Len(d) : d[i].items[1] = pairs[n].items[1]
          THEN [i \in 1..Len(d) |->
                  IF d[i].items[1] = pairs[n].items[1]
                  THEN PyItem(d[i].items[1], pairs[n].items[2]) ELSE d[i]]
          ELSE Append(d, pairs[n])

\* snake_str.split("_")
RECURSIVE split(_)
split(chars) ==
  IF \A i \in 1..Len(chars) : chars[i] # "_" THEN <<chars>>
  ELSE LET i == CHOOSE j \in 1..Len(chars) :
                  chars[j] = "_" /\ \A k \in 1..(j - 1) : chars[k] # "_"
       IN <<SubSeq(chars, 1, i - 1)>> \o split(SubSeq(chars, i + 1, Len(chars)))

upper(c) == IF c = "a" THEN "A" ELSE c
lower(c) == IF c = "A" THEN "a" ELSE c

\* x.title() of a component, which holds letters only
title(x) == [i \in 1..Len(x) |-> IF i = 1 THEN upper(x[i]) ELSE lower(x[i])]

\* "".join(...)
RECURSIVE join(_)
join(parts) == IF parts = <<>> THEN <<>> ELSE parts[1] \o join(Tail(parts))

str_to_camel_case(snake_str) ==
  LET components == split(snake_str)
  IN components[1] \o join([i \in 1..(Len(components) - 1) |-> title(components[i + 1])])

AttributeError == [raised |-> TRUE, value |-> PyNone]
Value(value) == [raised |-> FALSE, value |-> value]

\* keys_to_camel_case(value): what it returns, or the AttributeError of
\* snake_str.split on a value that is no str; an exception raised for an
\* element or item is raised by the whole call
RECURSIVE keys_to_camel_case(_)
keys_to_camel_case(value) ==
  IF value.t = "NoneType" THEN Value(PyNone)
  ELSE IF value.t = "list"
  THEN LET each == [i \in 1..Len(value.items) |-> keys_to_camel_case(value.items[i])]
       IN IF \E i \in 1..Len(each) : each[i].raised THEN AttributeError
          ELSE Value(PyList([i \in 1..Len(each) |-> each[i].value]))
  ELSE IF value.t = "dict"
  THEN LET each == [i \in 1..Len(value.items) |->
                      LET k == value.items[i].items[1]
                          v == value.items[i].items[2]
                      IN [k |-> keys_to_camel_case(k),
                          v |-> IF v.t \in {"list", "dict"}
                                THEN keys_to_camel_case(v) ELSE Value(v)]]
       IN IF \E i \in 1..Len(each) : each[i].k.raised \/ each[i].v.raised
          THEN AttributeError
          ELSE Value(PyDict(dict([i \in 1..Len(each) |->
                                    PyItem(each[i].k.value, each[i].v.value)])))
  ELSE IF value.t = "str" THEN Value(PyStr(str_to_camel_case(value.s)))
  ELSE AttributeError

\* the values the function is applied to: leaves, lists and dicts of them,
\* and lists and dicts of those
Leaves == {PyNone, PyInt, PyBool} \cup {PyStr(x) : x \in Strings}
FewLeaves == {PyInt, PyStr(<<"a", "_", "a">>)}
Nested(inner) ==
  Leaves
    \cup {PyList(<<x>>) : x \in inner}
    \cup {PyList(<<x, y>>) : x \in FewLeaves \cup {PyNone}, y \in FewLeaves \cup {PyNone}}
    \cup {PyDict(<<PyItem(PyStr(k), x)>>) : k \in Strings, x \in inner}
    \cup {PyDict(<<PyItem(PyStr(k1), x), PyItem(PyStr(k2), y)>>) :
            k1 \in Strings, k2 \in {<<"a", "_", "a">>, <<"a", "A">>},
            x \in FewLeaves, y \in FewLeaves}
PyValues(leaves) == Nested(Nested(leaves))

CamelCaseCalls(values) ==
  [command : {"keys_to_camel_case"}, value : values, done : {FALSE},
   out : {Value(PyNone)}]

KeysToCamelCase ==
  /\ call.command = "keys_to_camel_case"
  /\ ~call.done
  /\ call' = [call EXCEPT !.done = TRUE, !.out = keys_to_camel_case(call.value)]
  /\ UNCHANGED pollVars

InitCamelCase == Quiet /\ call \in CamelCaseCalls(PyValues(Leaves))

SpecCamelCase == InitCamelCase /\ [][KeysToCamelCase]_vars

\* ---- move_item_between_mailboxes ----
\* what source_account.export and source_account.bulk_delete may do
RemoteOutcomes == {"ok", "raise"}
\* what destination_account.upload may do: the remote library raises some
\* errors and returns others as elements of the result list, as account.fetch
\* returns ErrorItemNotFound in get_items_from_mailbox; the result of upload
\* is not looked at
UploadOutcomes == {"ok", "raise", "error returned"}

\* a move about to run: whether the source mailbox holds the item, whether
\* the destination folder exists, and what each remote call will do
MoveCalls ==
  [command : {"ews-move-item-between-mailboxes"}, pc : {"start"},
   existed : BOOLEAN, in_source : BOOLEAN, in_destination : {FALSE},
   folder_exists : BOOLEAN, export : RemoteOutcomes, upload : UploadOutcomes,
   bulk_delete : RemoteOutcomes, raised : {"none"}]

MoveRaises(by) == [call EXCEPT !.pc = "done", !.raised = by]

\* client.get_account (twice), client.is_default_folder and
\* client.get_folder_by_path for the destination
ResolveDestination ==
  /\ call.command = "ews-move-item-between-mailboxes" /\ call.pc = "start"
  /\ call' = IF call.folder_exists THEN [call EXCEPT !.pc = "resolved"]
             ELSE MoveRaises("get_folder_by_path")
  /\ UNCHANGED pollVars

\* item = client.get_item_from_mailbox(source_account, item_id)
GetItem ==
  /\ call.command = "ews-move-item-between-mailboxes" /\ call.pc = "resolved"
  /\ call' = IF get_items_from_mailbox(IF call.in_source THEN {1} ELSE {}, <<1>>).raised
             THEN MoveRaises("get_item_from_mailbox")
             ELSE [call EXCEPT !.pc = "got"]
  /\ UNCHANGED pollVars

\* exported_items = source_account.export([item])
Export ==
  /\ call.command = "ews-move-item-between-mailboxes" /\ call.pc = "got"
  /\ call' = IF call.export = "raise" THEN MoveRaises("export")
             ELSE [call EXCEPT !.pc = "exported"]
  /\ UNCHANGED pollVars

\* destination_account.upload([(destination_folder, exported_items[0])])
Upload ==
  /\ call.command = "ews-move-item-between-mailboxes" /\ call.pc = "exported"
  /\ call' = IF call.upload = "raise" THEN MoveRaises("upload")
             ELSE [call EXCEPT !.pc = "uploaded",
                               !.in_destination = (call.upload = "ok")]
  /\ UNCHANGED pollVars

\* source_account.bulk_delete([item]) and the result returned
BulkDelete ==
  /\ call.command = "ews-move-item-between-mailboxes" /\ call.pc = "uploaded"
  /\ call' = IF call.bulk_delete = "raise" THEN MoveRaises("bulk_delete")
             ELSE [call EXCEPT !.pc = "done", !.in_source = FALSE]
  /\ UNCHANGED pollVars

InitMove == Quiet /\ call \in {c \in MoveCalls : c.existed = c.in_source}

NextMove == ResolveDestination \/ GetItem \/ Export \/ Upload \/ BulkDelete

SpecMove == InitMove /\ [][NextMove]_vars

\* ---- what a poll is judged by ----
\* the poll that just ended
Polled == last.polled
Succeeded == Polled /\ last.met = "ok"
RateLimited == Polled /\ last.met = "RateLimitError"
\* the cursor get_last_run handed to the poll that just ended
Loaded == get_last_run(last.before, folder_name)
\* the lastRunTime and ids of a stored dict
CursorOf(d) ==
  [lastRunTime |-> Get(d, LAST_RUN_TIME),
   ids |-> IF LAST_RUN_IDS \in DOMAIN d THEN d[LAST_RUN_IDS] ELSE <<>>,
   stored |-> DOMAIN d \cap {LAST_RUN_TIME, LAST_RUN_IDS}]
\* a stored lastRunTime as a number, an unset one below every time
TimeOf(d) == IF Get(d, LAST_RUN_TIME) = None THEN 0 - 1 ELSE d[LAST_RUN_TIME].v
\* the lower bound of the query of the poll that just ended
Watermark == since(Get(Loaded, LAST_RUN_TIME), last.t)

\* C1: over any sequence of polls on the configured folder no message-id is
\* handed to demisto.incidents more than once.
C1_NoMessageEmittedTwice == ~dup

\* C2: a poll hands over no incident whose message-id was in the persisted
\* ids when the poll started.
C2_SeenIdNotEmitted ==
  Polled =>
    \A i \in 1..Len(last.incidents) :
      last.incidents[i].message_id \notin SeqToSet(CursorOf(last.before).ids)

\* C2 witness: a successful poll ran while the folder held a message whose id
\* was in the persisted ids and whose received time was at or after the
\* watermark.
C2_Witness ==
  /\ Succeeded
  /\ \E x \in mailbox :
       /\ x.kind = "Message"
       /\ x.message_id \in SeqToSet(CursorOf(last.before).ids)
       /\ DtGE(x.datetime_received, Watermark)

\* C3: the persisted lastRunTime after a poll is at or after the one before
\* it, an unset one counting as the minimum.
C3_LastRunTimeMonotone == Polled => TimeOf(lastRun) >= TimeOf(last.before)

\* the stored form of a loaded cursor: its lastRunTime rendered again
Stored(last_run) ==
  IF Get(last_run, LAST_RUN_TIME).type = "EWSDateTime"
  THEN Put(last_run, LAST_RUN_TIME, ewsformat(last_run[LAST_RUN_TIME]))
  ELSE last_run

\* C4: after three (or more) consecutive rate-limited polls the persisted
\* lastRunTime and ids are those from before the first of them, and the
\* third (and each later one) ended in an exception raised to the caller.
C4_ThreeRateLimitsFailClosed ==
  (RateLimited /\ rl_streak >= 3) =>
    /\ CursorOf(lastRun) = CursorOf(rl_base)
    /\ last.raised # "none"
    /\ ~last.called

\* C4 witness: a third consecutive rate-limited poll, hit while an incident
\* was being built, on a cursor that holds a lastRunTime and ids.
C4_Witness ==
  /\ RateLimited
  /\ rl_streak = 3
  /\ last.at >= 1
  /\ last.raised = "RateLimitError"
  /\ TimeOf(lastRun) >= 0
  /\ Len(CursorOf(lastRun).ids) > 0

\* C5: from no persisted state, of three successive rate-limited polls the
\* first two hand over no incident and raise nothing, leaving the fresh cursor
\* with errorCounter 1 then 2, and the third raises the rate-limit error with
\* errorCounter 3 persisted.
C5_CleanCursorBackoff ==
  (RateLimited /\ rl_streak \in 1..3 /\ rl_base = EmptyDict) =>
    /\ lastRun = [lastRunTime |-> None, folderName |-> folder_name, ids |-> <<>>,
                  errorCounter |-> rl_streak]
    /\ last.incidents = <<>>
    /\ rl_streak \in {1, 2} => (last.raised = "none" /\ last.called)
    /\ rl_streak = 3 => last.raised = "RateLimitError"

\* C6: a rate-limited poll persists the cursor it loaded with errorCounter one
\* greater (absent counting as 0), lastRunTime rendered back to the same
\* value and ids unchanged, and hands over no incident.
C6_RateLimitPersistsIncrement ==
  RateLimited =>
    /\ last.set
    /\ lastRun = Put(Stored(Loaded), ERROR_COUNTER, ErrorCounterOf(Loaded) + 1)
    /\ last.incidents = <<>>

\* C7: a rate-limited poll is absorbed (an empty incident list, no exception)
\* exactly when the incremented errorCounter is <= 2 and raised exactly when
\* it is > 2, the incremented counter being persisted before the raise; so
\* every rate-limited poll on a counter already > 2 is raised too.
C7_AbsorbedUpToTwo ==
  RateLimited =>
    LET counter == ErrorCounterOf(Loaded) + 1 IN
    /\ (last.raised = "none" /\ last.called /\ last.incidents = <<>>) <=> counter <= 2
    /\ last.raised # "none" <=> counter > 2
    /\ counter > 2 => (last.set /\ ErrorCounterOf(lastRun) = counter)

\* C8: a poll ended by an exception other than the rate-limit error leaves
\* the persisted dict as it was; setLastRun is not called.
C8_OtherErrorLeavesCursor ==
  (Polled /\ last.met \notin {"ok", "RateLimitError"}) =>
    (lastRun = last.before /\ ~last.set)

\* C8 witness: an exception of that kind arose while the second incident of
\* a poll was being built, on a cursor persisted earlier.
C8_Witness ==
  /\ Polled
  /\ last.met \in OtherErrors
  /\ last.at >= 2
  /\ last.before # EmptyDict

\* C9: after a successful poll with incidents the persisted lastRunTime is
\* the occurred of the last incident handed over; after one without, it is
\* the loaded lastRunTime.
C9_LastRunTimeFromLastIncident ==
  Succeeded =>
    lastRun[LAST_RUN_TIME] =
      IF Len(last.incidents) > 0
      THEN last.incidents[Len(last.incidents)].occurred
      ELSE Stored(Loaded)[LAST_RUN_TIME]

\* C9 witness: a successful poll that max_fetch cut short of its candidates.
C9_Witness ==
  /\ Succeeded
  /\ Len(last.incidents) >= 1
  /\ last.candidates > Len(last.incidents)

\* C10: a successful poll persists errorCounter = 0 whatever counter it loaded.
C10_SuccessResetsCounter ==
  Succeeded => (ERROR_COUNTER \in DOMAIN lastRun /\ lastRun[ERROR_COUNTER] = 0)

\* C10 witness: a successful poll on a cursor whose counter was above 2.
C10_Witness == Succeeded /\ ErrorCounterOf(last.before) > 2

\* C11: every persisted cursor, after any sequence of successful, rate-limited
\* and failed polls, holds at most last_run_ids_queue_size ids.
C11_IdsWithinQueueSize == Len(CursorOf(lastRun).ids) <= last_run_ids_queue_size

\* C11 witness: a successful poll whose loaded ids and new ids together exceed
\* the window, which it persisted full.
C11_Witness ==
  /\ Succeeded
  /\ Len(Loaded[LAST_RUN_IDS]) + Len(last.incidents) > last_run_ids_queue_size
  /\ Len(CursorOf(lastRun).ids) = last_run_ids_queue_size

\* the message ids of a list of incidents, in order
IdsOfIncidents(incidents) == [i \in 1..Len(incidents) |-> incidents[i].message_id]

\* C12: after a successful poll the persisted ids are the last
\* last_run_ids_queue_size elements of the loaded ids followed by the message
\* ids of the incidents handed over, in that order.
C12_IdsAreLastOfLoadedThenEmitted ==
  Succeeded =>
    lastRun[LAST_RUN_IDS] =
      LastN(Loaded[LAST_RUN_IDS] \o IdsOfIncidents(last.incidents),
            last_run_ids_queue_size)

\* C12 witness: a successful poll that pushed the oldest loaded id out of the
\* window while a younger loaded id stayed, ahead of the new one.
C12_Witness ==
  /\ Succeeded
  /\ Len(Loaded[LAST_RUN_IDS]) = last_run_ids_queue_size
  /\ Len(last.incidents) >= 1
  /\ Len(last.incidents) < last_run_ids_queue_size

\* C13: the incidents one poll hands over are in non-decreasing order of
\* occurred, the creation time of their items.
C13_IncidentsAscendByOccurred ==
  Polled =>
    \A i, j \in 1..Len(last.incidents) :
      i < j => last.incidents[i].occurred.v <= last.incidents[j].occurred.v

\* the items of the folder a poll may turn into incidents: messages that carry
\* a Message-ID outside the loaded ids, received at or after the watermark
Surviving ==
  {x \in mailbox :
     /\ x.kind = "Message"
     /\ x.message_id # NoMessageId
     /\ x.message_id \notin SeqToSet(Loaded[LAST_RUN_IDS])
     /\ x.datetime_received.v >= Watermark.v}

\* C14: whatever max_fetch is configured, one poll hands over at most
\* min(max_fetch, 50) incidents, and they are the earliest surviving
\* candidates in ascending order of received time.  A limit below zero is
\* read as zero: no incident.
C14_AtMostMaxFetchEarliest ==
  Polled =>
    /\ Len(last.incidents) <= (IF max_fetch < 0 THEN 0 ELSE max_fetch)
    /\ \A i \in 1..Len(last.incidents) :
         \E x \in Surviving :
           /\ x.id = last.incidents[i].item_id
           /\ \A j \in 1..Len(last.incidents) :
                i < j => \E y \in Surviving :
                           /\ y.id = last.incidents[j].item_id
                           /\ x.datetime_received.v <= y.datetime_received.v
           /\ \A y \in Surviving :
                y.datetime_received.v < x.datetime_received.v
                  => \E j \in 1..Len(last.incidents) : last.incidents[j].item_id = y.id

\* the watermark of the poll that just ended, as a number: the loaded
\* lastRunTime when set, else the time of the poll minus ten minutes
WatermarkTime ==
  IF Get(Loaded, LAST_RUN_TIME) # None
  THEN Loaded[LAST_RUN_TIME].v ELSE last.t - TenMinutes

\* C15: every incident of a poll is for a message received at or after the
\* poll's watermark, and a message received exactly at the watermark is a
\* candidate: a successful poll hands it over unless its id is in the loaded
\* ids or max_fetch ended the poll.
C15_ReceivedAtOrAfterWatermark ==
  Polled =>
    /\ \A i \in 1..Len(last.incidents) :
         \E x \in mailbox :
           /\ x.id = last.incidents[i].item_id
           /\ x.datetime_received.v >= WatermarkTime
    /\ Succeeded =>
         \A x \in mailbox :
           (/\ x.kind = "Message"
            /\ x.message_id # NoMessageId
            /\ x.message_id \notin SeqToSet(Loaded[LAST_RUN_IDS])
            /\ x.datetime_received.v = WatermarkTime)
           => \/ \E i \in 1..Len(last.incidents) : last.incidents[i].item_id = x.id
              \/ Len(last.incidents) >= max_fetch

\* C15 witness: a successful poll on an unset lastRunTime handed over a
\* message received exactly ten minutes before it, while the folder held a
\* message received earlier than that.
C15_Witness ==
  /\ Succeeded
  /\ Get(Loaded, LAST_RUN_TIME) = None
  /\ \E i \in 1..Len(last.incidents) :
       \E x \in mailbox :
         /\ x.id = last.incidents[i].item_id
         /\ x.datetime_received.v = last.t - TenMinutes
  /\ \E y \in mailbox :
       /\ y.kind = "Message"
       /\ y.message_id # NoMessageId
       /\ y.datetime_received.v < last.t - TenMinutes

\* C16: a fetched item that is not a message, or carries no Message-ID, never
\* becomes an incident, never enters the persisted ids, and does not count
\* toward max_fetch: a successful poll hands over as many incidents as there
\* are surviving messages, up to max_fetch.
C16_OnlyMessagesWithIdCount ==
  /\ NoMessageId \notin SeqToSet(CursorOf(lastRun).ids)
  /\ Polled =>
       \A i \in 1..Len(last.incidents) :
         \E x \in mailbox :
           /\ x.id = last.incidents[i].item_id
           /\ x.kind = "Message"
           /\ x.message_id # NoMessageId
  /\ (Succeeded /\ max_fetch >= 1) =>
       Len(last.incidents) = Min(Cardinality(Surviving), max_fetch)

\* C16 witness: a successful poll filled max_fetch although an item of
\* another kind and a message without Message-ID, both inside the window,
\* were received no later than a message it handed over.
C16_Witness ==
  /\ Succeeded
  /\ Len(last.incidents) = max_fetch
  /\ \E x, y, z \in mailbox :
       /\ x.kind = "Other"
       /\ y.kind = "Message" /\ y.message_id = NoMessageId
       /\ \E i \in 1..Len(last.incidents) : last.incidents[i].item_id = z.id
       /\ x.datetime_received.v >= WatermarkTime
       /\ y.datetime_received.v >= WatermarkTime
       /\ x.datetime_received.v <= z.datetime_received.v
       /\ y.datetime_received.v <= z.datetime_received.v

\* the fresh cursor of a folder
FreshCursor(folder) == [lastRunTime |-> None, folderName |-> folder, ids |-> <<>>]

\* the last run stored for the configured folder
OwnCursor(stored) ==
  stored # EmptyDict /\ Get(stored, LAST_RUN_FOLDER) = folder_name

\* C17: get_last_run returns the persisted cursor (its lastRunTime parsed)
\* when one exists for the configured folder, and otherwise the fresh cursor
\* of the configured folder; a poll on a cursor of another folder uses the
\* default window, excludes no id and persists none of its ids.
C17_CursorOfOtherFolderDiscarded ==
  /\ LET got == get_last_run(lastRun, folder_name) IN
     IF OwnCursor(lastRun)
     THEN /\ DOMAIN got = DOMAIN lastRun
          /\ \A k \in DOMAIN got \ {LAST_RUN_TIME} : got[k] = lastRun[k]
          /\ got[LAST_RUN_TIME] =
               IF lastRun[LAST_RUN_TIME] = None
               THEN None ELSE EWSDateTime(lastRun[LAST_RUN_TIME].v)
     ELSE got = FreshCursor(folder_name)
  /\ (Polled /\ ~OwnCursor(last.before)) =>
       /\ \A i \in 1..Len(last.incidents) :
            \E x \in mailbox :
              /\ x.id = last.incidents[i].item_id
              /\ x.datetime_received.v >= last.t - TenMinutes
       /\ Succeeded =>
            /\ \A x \in mailbox :
                 (/\ x.kind = "Message"
                  /\ x.message_id # NoMessageId
                  /\ x.datetime_received.v >= last.t - TenMinutes)
                 => \/ \E i \in 1..Len(last.incidents) :
                         last.incidents[i].item_id = x.id
                    \/ Len(last.incidents) >= max_fetch
            /\ lastRun[LAST_RUN_IDS] =
                 LastN(IdsOfIncidents(last.incidents), last_run_ids_queue_size)

\* C17 witness: a successful poll on a cursor stored for another folder handed
\* over a message whose id that cursor held, and left out a message received
\* at or after that cursor's lastRunTime but before the default window.
C17_Witness ==
  /\ Succeeded
  /\ last.before # EmptyDict
  /\ last.before[LAST_RUN_FOLDER] # folder_name
  /\ \E i \in 1..Len(last.incidents) :
       last.incidents[i].message_id \in SeqToSet(last.before[LAST_RUN_IDS])
  /\ \E x \in mailbox :
       /\ x.kind = "Message"
       /\ x.message_id # NoMessageId
       /\ x.datetime_received.v >= last.before[LAST_RUN_TIME].v
       /\ x.datetime_received.v < last.t - TenMinutes

\* a set of messages with one time each (created when received), no two at
\* the same time, no two with the same Message-ID
DistinctMessages(S) ==
  /\ \A x \in S :
       /\ x.kind = "Message"
       /\ x.message_id # NoMessageId
       /\ x.datetime_created = x.datetime_received
  /\ \A x, y \in S :
       x # y => (/\ x.datetime_received.v # y.datetime_received.v
                 /\ x.message_id # y.message_id)

\* such a set as the sequence of its messages in order of time
InTimeOrder(S) ==
  CHOOSE q \in [1..Cardinality(S) -> S] :
    \A i, j \in DOMAIN q : i < j => q[i].datetime_received.v < q[j].datetime_received.v

\* the poll that just ended handed over exactly the messages of q, in order
HandedOver(q) ==
  /\ Len(last.incidents) = Len(q)
  /\ \A i \in 1..Len(q) :
       /\ last.incidents[i].item_id = q[i].id
       /\ last.incidents[i].message_id = q[i].message_id
       /\ last.incidents[i].occurred = Str(q[i].datetime_received.v)

\* C18: from an empty last run, when the folder holds n <= max_fetch messages
\* at distinct times t1 < ... < tn, all within the last ten minutes, the poll
\* hands over exactly these n in order t1..tn and persists lastRunTime = tn
\* and ids = [m1, ..., mn].
C18_FirstPollTakesAll ==
  (/\ Succeeded
   /\ last.before = EmptyDict
   /\ DistinctMessages(mailbox)
   /\ Cardinality(mailbox) <= max_fetch
   /\ \A x \in mailbox : x.datetime_received.v >= last.t - TenMinutes)
  => LET q == InTimeOrder(mailbox) IN
     /\ HandedOver(q)
     /\ lastRun[LAST_RUN_IDS] = [i \in 1..Len(q) |-> q[i].message_id]
     /\ Len(q) > 0 => lastRun[LAST_RUN_TIME] = Str(q[Len(q)].datetime_received.v)

\* C18 witness: such a first poll over two messages.
C18_Witness ==
  /\ Succeeded
  /\ last.before = EmptyDict
  /\ DistinctMessages(mailbox)
  /\ Cardinality(mailbox) = 2
  /\ Cardinality(mailbox) <= max_fetch
  /\ \A x \in mailbox : x.datetime_received.v >= last.t - TenMinutes

\* what C19 promises of a poll: no incident, and the lastRunTime and ids it
\* found persisted again, the lastRunTime having been the watermark
Idempotent ==
  /\ last.incidents = <<>>
  /\ CursorOf(lastRun) = CursorOf(last.before)
  /\ Get(last.before, LAST_RUN_TIME) # None
       => Watermark = EWSDateTime(last.before[LAST_RUN_TIME].v)

NewSince ==
  {x \in mailbox : x.datetime_received.v > last.before[LAST_RUN_TIME].v}

\* the poll that just ended started from a cursor with lastRunTime t and ids
\* S such that: the items received after t are messages with one time each,
\* no two at the same time, with Message-IDs of their own; they are no more
\* than max_fetch and fit into the window after S; and the folder holds no
\* other candidate (a message received at t has its id in S)
NewArrivalsOnly ==
  /\ Succeeded
  /\ OwnCursor(last.before)
  /\ Get(last.before, LAST_RUN_TIME) # None
  /\ DistinctMessages(NewSince)
  /\ \A x \in NewSince : x.message_id \notin SeqToSet(last.before[LAST_RUN_IDS])
  /\ Cardinality(NewSince) <= max_fetch
  /\ Len(last.before[LAST_RUN_IDS]) + Cardinality(NewSince) <= last_run_ids_queue_size
  /\ \A x \in mailbox :
       (/\ x.kind = "Message"
        /\ x.message_id # NoMessageId
        /\ x.datetime_received.v = last.before[LAST_RUN_TIME].v)
       => x.message_id \in SeqToSet(last.before[LAST_RUN_IDS])

C24_ErrorCounterOnlyWhilePositive ==
  /\ ERROR_COUNTER \in DOMAIN lastRun => lastRun[ERROR_COUNTER] > 0
  /\ Succeeded => ERROR_COUNTER \notin DOMAIN lastRun

\* C24 amended: every persisted cursor carries errorCounter: 0 as a
\* successful poll persists it, 1 or more as a rate-limited poll does.
C24_ErrorCounterAlwaysStored ==
  /\ lastRun # EmptyDict =>
       (ERROR_COUNTER \in DOMAIN lastRun /\ lastRun[ERROR_COUNTER] >= 0)
  /\ Succeeded =>
       (ERROR_COUNTER \in DOMAIN lastRun /\ lastRun[ERROR_COUNTER] = 0)
  /\ (RateLimited /\ last.set) => lastRun[ERROR_COUNTER] >= 1

\* C24 witness: a successful poll right after one absorbed rate-limited poll.
C24_Witness == Succeeded /\ ErrorCounterOf(last.before) = 1

\* C28: no two incidents of one poll carry the same message-id.
C28_NoRepeatWithinPoll == Polled => ~HasRepeat(last.incidents)

\* C29: a persisted lastRunTime is unset or the creation time of a message
\* handed over as an incident: each poll leaves it as it was or stores the
\* occurred of one of its incidents, the default window is never stored, and
\* a poll on an unset lastRunTime looks back ten minutes from its own start.
C29_LastRunTimeUnsetOrEmitted ==
  /\ \/ Get(lastRun, LAST_RUN_TIME) = None
     \/ \E x \in mailbox :
          /\ x.kind = "Message"
          /\ x.message_id \in emitted
          /\ lastRun[LAST_RUN_TIME] = Str(x.datetime_created.v)
  /\ Polled =>
       \/ Get(lastRun, LAST_RUN_TIME) = Get(last.before, LAST_RUN_TIME)
       \/ \E i \in 1..Len(last.incidents) :
            \E x \in mailbox :
              /\ x.id = last.incidents[i].item_id
              /\ lastRun[LAST_RUN_TIME] = Str(x.datetime_created.v)
  /\ (Polled /\ Get(last.before, LAST_RUN_TIME) = None) =>
       \A i \in 1..Len(last.incidents) :
         \E x \in mailbox :
           /\ x.id = last.incidents[i].item_id
           /\ x.datetime_received.v >= last.t - TenMinutes

\* C29 witness: a successful poll without incidents on an unset lastRunTime
\* that had been left unset by a successful poll before, while the folder held
\* a message older than ten minutes.
C29_Witness ==
  /\ Succeeded
  /\ last.before # EmptyDict
  /\ Get(last.before, LAST_RUN_TIME) = None
  /\ last.incidents = <<>>
  /\ Get(lastRun, LAST_RUN_TIME) = None
  /\ \E x \in mailbox :
       /\ x.kind = "Message"
       /\ x.message_id # NoMessageId
       /\ x.datetime_received.v < last.t - TenMinutes

\* C27: every Message-ID among the ids the last run stores belongs to a message
\* whose incident was handed to the platform: the last run is never stored
\* for a batch whose incidents are then not handed over, also when the tick
\* is interrupted between setLastRun and demisto.incidents
C27_StoredIdsWereHandedOver ==
  IF LAST_RUN_IDS \in DOMAIN lastRun
  THEN SeqToSet(lastRun[LAST_RUN_IDS]) \subseteq emitted
  ELSE TRUE

\* C21: when the store is unavailable (ErrorMailboxStoreUnavailable or
\* ErrorMailboxMoveInProgress) during fetch-incidents, the platform receives
\* an empty incident list, no error is raised and the last run is unchanged;
\* for an interactive command the exception is answered with an error entry
\* that suggests retrying
C21_UnavailableAbsorbedOrRetry ==
  /\ (last.polled /\ last.met \in Unavailable) =>
       /\ last.called /\ last.incidents = <<>> /\ last.raised = "none"
       /\ lastRun = last.before
  /\ (call.command \in Commands /\ call.done /\ call.e \in Unavailable) =>
       IF call.command = "fetch-incidents"
       THEN call.out = Out(Called(<<>>), NoEntry, "exit")
       ELSE IF call.command = "test-module"
       THEN TRUE
       ELSE /\ call.out.results.Type = "error"
            /\ \E i \in 1..Len(call.out.results.Contents) :
                 call.out.results.Contents[i] = RetryRequest

\* the requested ids the store holds, in the order requested
FoundOf(c) ==
  LET Held(x) == x \in c.store IN SelectSeq(c.item_ids, Held)

\* C22 as stated: get_items_from_mailbox filters the items not found out
\* silently and returns those found; it fails only when every requested item
\* is missing
C22_FailsOnlyIfAllMissing ==
  (call.command = "get_items_from_mailbox" /\ call.done) =>
    IF FoundOf(call) = <<>>
    THEN call.out.raised
    ELSE /\ ~call.out.raised
         /\ call.out.result = [i \in 1..Len(FoundOf(call)) |-> Item(FoundOf(call)[i])]

\* C22: get_items_from_mailbox fails when one or more of the requested items
\* is missing, and returns the requested items in the order requested when
\* the store holds them all
C22_FailsIfAnyMissing ==
  (call.command = "get_items_from_mailbox" /\ call.done) =>
    IF \E i \in 1..Len(call.item_ids) : call.item_ids[i] \notin call.store
    THEN call.out.raised
    ELSE /\ ~call.out.raised
         /\ call.out.result = [i \in 1..Len(call.item_ids) |-> Item(call.item_ids[i])]

\* a call for several items, some held and some not, has raised
C22_Witness ==
  /\ call.command = "get_items_from_mailbox" /\ call.done
  /\ FoundOf(call) # <<>>
  /\ Len(FoundOf(call)) < Len(call.item_ids)
  /\ call.out.raised

\* C23: with mark-as-read configured in a fetch, the item is flagged read and
\* saved; a conflict on the first save brings exactly one retry after a pause
\* (at most two saves), what the second save raises propagates, and any
\* other exception of the first save propagates at once; with mark-as-read
\* off, or outside a fetch, nothing is saved.  In a poll the conflict that
\* propagates ends the poll: nothing is handed over, the last run stays
C23_OneRetryOnConflict ==
  /\ (call.command = "parse_incident_from_item" /\ call.done) =>
       IF call.mark_as_read /\ call.is_fetch
       THEN /\ call.out.is_read
            /\ call.out.attempts \in 1..2
            /\ call.out.attempts = 2 <=> call.saves[1] = "ErrorIrresolvableConflict"
            /\ call.out.slept <=> call.out.attempts = 2
            /\ call.out.raised =
                 (IF call.saves[call.out.attempts] = "ok"
                  THEN "none" ELSE call.saves[call.out.attempts])
       ELSE call.out = [attempts |-> 0, is_read |-> FALSE, slept |-> FALSE,
                        raised |-> "none"]
  /\ (last.polled /\ last.met = "ErrorIrresolvableConflict") =>
       /\ last.raised = "ErrorIrresolvableConflict" /\ ~last.called
       /\ lastRun = last.before

\* a fetch with mark-as-read whose first and second save both met a conflict
C23_Witness ==
  /\ call.command = "parse_incident_from_item" /\ call.done
  /\ call.mark_as_read /\ call.is_fetch
  /\ call.saves[1] = "ErrorIrresolvableConflict"
  /\ call.saves[2] = "ErrorIrresolvableConflict"
  /\ call.out.attempts = 2 /\ call.out.raised = "ErrorIrresolvableConflict"

\* the value with every mapping key in camel case, through nested mappings
\* and lists, and every leaf as it is
RECURSIVE KeysRewritten(_)
KeysRewritten(value) ==
  IF value.t = "list"
  THEN PyList([i \in 1..Len(value.items) |-> KeysRewritten(value.items[i])])
  ELSE IF value.t = "dict"
  THEN PyDict(dict([i \in 1..Len(value.items) |->
                      PyItem(PyStr(str_to_camel_case(value.items[i].items[1].s)),
                             KeysRewritten(value.items[i].items[2]))]))
  ELSE value

\* C25: keys_to_camel_case rewrites every mapping key, recursively through
\* nested mappings and lists, and leaves every leaf value unchanged: a string
\* value (of a mapping or in a list) is not rewritten, and a leaf that is no
\* string (number, boolean, null), also in a list, is returned untouched
\* without error
C25_OnlyKeysRewritten ==
  (call.command = "keys_to_camel_case" /\ call.done
     /\ call.value.t \in {"list", "dict"}) =>
    /\ ~call.out.raised
    /\ call.out.value = KeysRewritten(call.value)

\* C30: move_item_between_mailboxes deletes the item from the source mailbox
\* only after export and upload have completed; when resolving the
\* destination, the export or the upload fails, the item is still in the
\* source; in every reachable state an item the source held is in at least
\* one of the two mailboxes
C30_ItemNeverLost ==
  (call.command = "ews-move-item-between-mailboxes" /\ call.existed) =>
    /\ call.in_source \/ call.in_destination
    /\ ~call.in_source => (call.pc = "done" /\ call.raised = "none")
    /\ (call.pc \in {"uploaded", "done"} /\ call.upload # "ok") => call.in_source
    /\ call.raised \in {"get_folder_by_path", "export", "upload"} => call.in_source

\* C26: when every poll succeeds and arrivals stop, every message with a
\* Message-ID that the query of some poll covered (received at or after the
\* watermark) is handed over by that poll or a later one, also a message cut
\* off by max_fetch and a message received at the time of the last one
\* handed over
C26_EveryCoveredMessageEmitted ==
  \A k \in 1..MaxItems : (k \in owed) ~> (k \notin owed)

====
